---- MODULE Spec2Model ----
(***************************************************************************)
(* Pricing API (main.py): an in-memory baseline store, a dummy predictor,  *)
(* the business-rule engine and the three endpoints that use them.         *)
(*                                                                         *)
(* Numbers.  The source computes with floats.  Here a price that enters    *)
(* the program (base_price, cost, competitor_price, min_price, max_price)  *)
(* is an integer number of cents, a percentage of the source (0.12) is the *)
(* integer 12, and a price computed inside predict_price or apply_rules is *)
(* an integer number of 1/100 cent ("units"): cents * (100 + pct).  The    *)
(* value returned by round(price, 2) is again a number of cents.           *)
(* Python's None in an Optional[float] is the integer -1, which no         *)
(* validated input can be (every numeric field is declared ge=0); None in  *)
(* place of a dict is the empty function, which the code cannot tell from  *)
(* an empty dict because the only thing it does with it is `not base`.     *)
(***************************************************************************)
EXTENDS Integers, FiniteSets, Sequences, TLC

VARIABLES
    store,      \* SKU_BASELINES: a dict, sku -> baseline dict
    rules,      \* DEFAULT_RULES: the module-level rule dict
    req,        \* the request the last handler served
    resp,       \* what that handler returned (or the HTTP error it raised)
    fed,        \* history: competitor_price the last request passed to predict_price
    given,      \* history: per sku, the payload of the most recent upsert (or the seed)
    dup,        \* history: the last request was an upsert equal to the one before it
    call,       \* a direct call of apply_rules: its arguments and its result
    pc,         \* per request thread: the statement of get_price it is at
    loc,        \* per request thread: the locals of get_price
    wpc,        \* the writer thread: the statement of upsert_baseline it is at
    wloc,       \* the writer thread: its payload and the dict model_dump() built
    hist,       \* history: the dicts stored under the contended sku, oldest first
    acked,      \* history: the place in hist of the last upsert that has returned
    nUpserts    \* history: the number of upserts the writer has started

vars == <<store, rules, req, resp, fed, given, dup, call, pc, loc, wpc, wloc, hist, acked, nUpserts>>

seqVars == <<req, resp, fed, given, dup>>
ruleVars == <<call>>
concVars == <<pc, loc, wpc, wloc, hist, acked, nUpserts>>

----------------------------------------------------------------------------
(* Values *)

None == 0 - 1

\* 1.0 as a percentage; also the number of units in a cent (round(.., 2)).
Hundred == 100

NoneDict == [k \in {} |-> 0]

\* dict.get(k, default)
DictGet(d, k, default) == IF k \in DOMAIN d THEN d[k] ELSE default

\* d[k] = v
DictPut(d, k, v) == [x \in (DOMAIN d) \cup {k} |-> IF x = k THEN v ELSE d[x]]

\* `not base`: None and the empty dict are both falsy
Falsy(d) == DOMAIN d = {}

Max(a, b) == IF a >= b THEN a ELSE b
Min(a, b) == IF a <= b THEN a ELSE b

\* round(x, 2) of a non-negative number of units, in cents.  A tie is rounded to
\* even, as Python rounds a value that is exactly representable; what round() does
\* with a float that only approximates a tie depends on the approximation, and the
\* input sets below are chosen so that no price of the model is a tie.
Round2(u) ==
    LET q == u \div Hundred
        r == u % Hundred
    IN  IF 2 * r < Hundred THEN q
        ELSE IF 2 * r > Hundred THEN q + 1
        ELSE IF q % 2 = 0 THEN q ELSE q + 1

SeedSku == "SKU123"

SeedRecord ==
    [base_price |-> 10000, cost |-> 7000, inventory |-> 800,
     competitor_price |-> 11000, seasonality |-> 100]

SKU_BASELINES == [s \in {SeedSku} |-> SeedRecord]

DEFAULT_RULES ==
    [min_margin_pct |-> 12, max_above_competitor_pct |-> 15,
     clearance_inventory |-> 1000, clearance_discount_pct |-> 10]

----------------------------------------------------------------------------
(* The inputs the model draws from *)

\* How far above the clearance threshold the inventories of the model go.
MaxOverClearance == 1

OtherSku == "SKU456"
Skus == {SeedSku, OtherSku}

BasePrices == {1, 10000}
Costs == {0, 9000}
Inventories == {0, 1000} \cup {1000 + i : i \in 1..MaxOverClearance}
StoredCompetitorPrices == {None, 5000, 11000}
Seasonalities == {100}
ObservedPrices == {None, 5000, 9000}

\* UpsertBaseline: a validated payload, every optional field filled with its default
UpsertBaseline ==
    [sku : Skus, base_price : BasePrices, cost : Costs, inventory : Inventories,
     competitor_price : StoredCompetitorPrices, seasonality : Seasonalities]

\* PriceQuery: the validated body of POST /price
PriceQuery == [sku : Skus, competitor_price : ObservedPrices]

----------------------------------------------------------------------------
(* DummyModel.predict_price *)

\* `competitor_price > base_price` raises TypeError when competitor_price is None
PredictRaises(competitor_price) == competitor_price = None

PredictPrice(base_price, competitor_price, inventory) ==
    LET premium == IF competitor_price > base_price THEN 5 ELSE 0 - 3
        inv_disc == IF inventory > 500 THEN 0 - 5 ELSE 0
    IN  base_price * (Hundred + premium + inv_disc)

----------------------------------------------------------------------------
(* apply_rules, statement by statement; prices in units *)

\* apply_rules without its first statement
MarginFloor_NoFloor(price, base, rls) == price

MarginFloor(price, base, rls) ==
    LET min_margin == DictGet(rls, "min_margin_pct", 12)
        min_price == Max(base["cost"] * (Hundred + min_margin),
                         DictGet(rls, "min_price", 0) * Hundred)
    IN  Max(price, min_price)

CompetitorCap(price, rls, competitor_price) ==
    IF competitor_price # None
    THEN LET cap == DictGet(rls, "max_above_competitor_pct", 15)
         IN  Min(price, competitor_price * (Hundred + cap))
    ELSE price

\* apply_rules with `>=` for `>` in the clearance test
Clearance_AtThreshold(price, base, rls) ==
    IF DictGet(base, "inventory", 0) >= DictGet(rls, "clearance_inventory", 1000)
    THEN Min(price, base["base_price"]
                      * (Hundred - DictGet(rls, "clearance_discount_pct", 10)))
    ELSE price

Clearance(price, base, rls) ==
    IF DictGet(base, "inventory", 0) > DictGet(rls, "clearance_inventory", 1000)
    THEN Min(price, base["base_price"]
                      * (Hundred - DictGet(rls, "clearance_discount_pct", 10)))
    ELSE price

HardCap(price, rls) ==
    IF "max_price" \in DOMAIN rls THEN Min(price, rls["max_price"] * Hundred)
    ELSE price

\* apply_rules with the clearance statement moved before the margin floor
ApplyRules_ClearanceFirst(predicted_price, base, rls, competitor_price) ==
    LET p1 == Clearance(predicted_price, base, rls)
        p2 == MarginFloor(p1, base, rls)
        p3 == CompetitorCap(p2, rls, competitor_price)
        p4 == HardCap(p3, rls)
    IN  Round2(p4)

ApplyRules(predicted_price, base, rls, competitor_price) ==
    LET p1 == MarginFloor(predicted_price, base, rls)
        p2 == CompetitorCap(p1, rls, competitor_price)
        p3 == Clearance(p2, base, rls)
        p4 == HardCap(p3, rls)
    IN  Round2(p4)

----------------------------------------------------------------------------
(* The endpoints, each handler one step *)

PriceOk(sku, price) == [status |-> 200, sku |-> sku, price |-> price]

\* a handler that answers an unknown sku with a default price
NotFound_DefaultPrice(sku) == PriceOk(sku, 0)

NotFound(sku) == [status |-> 404, detail |-> "not found", sku |-> sku]
ServerError(sku) == [status |-> 500, detail |-> "TypeError", sku |-> sku]
UpsertOk(sku) == [status |-> 200, message |-> "Baseline upserted", sku |-> sku]

\* The competitor price get_price / post_price resolve for the predictor
ResolveComp(base, competitor_price) ==
    IF competitor_price # None THEN competitor_price
    ELSE DictGet(base, "competitor_price", base["base_price"])

\* a handler that hands apply_rules the value it resolved for the predictor
RulesComp_Resolved(base, competitor_price) == ResolveComp(base, competitor_price)

\* The competitor price get_price / post_price hand to apply_rules
RulesComp(base, competitor_price) == competitor_price

\* What get_price returns or raises, from the two module-level dicts
GetPriceResult(s, rls, sku, competitor_price) ==
    LET base == DictGet(s, sku, NoneDict)
    IN  IF Falsy(base) THEN NotFound(sku)
        ELSE LET comp == ResolveComp(base, competitor_price)
             IN  IF PredictRaises(comp) THEN ServerError(sku)
                 ELSE LET predicted == PredictPrice(base["base_price"], comp,
                                                    DictGet(base, "inventory", 0))
                          price == ApplyRules(predicted, base, rls,
                                              RulesComp(base, competitor_price))
                      IN  PriceOk(sku, price)

\* The value get_price passes to predict_price (None when it does not get there)
GetPriceFed(s, sku, competitor_price) ==
    LET base == DictGet(s, sku, NoneDict)
    IN  IF Falsy(base) THEN None ELSE ResolveComp(base, competitor_price)

\* What post_price returns or raises
PostPriceResult(s, rls, payload) ==
    LET base == DictGet(s, payload.sku, NoneDict)
    IN  IF Falsy(base) THEN NotFound(payload.sku)
        ELSE LET comp == ResolveComp(base, payload.competitor_price)
             IN  IF PredictRaises(comp) THEN ServerError(payload.sku)
                 ELSE LET predicted == PredictPrice(base["base_price"], comp,
                                                    DictGet(base, "inventory", 0))
                          price == ApplyRules(predicted, base, rls,
                                              RulesComp(base, payload.competitor_price))
                      IN  PriceOk(payload.sku, price)

\* a handler that keeps the price it decided in the baseline dict
StoreAfterPrice_Cached(s, sku, result) ==
    IF result.status = 200 THEN DictPut(s, sku, DictPut(s[sku], "last_price", result.price))
    ELSE s

\* The store after a price request: get_price and post_price assign to no global
StoreAfterPrice(s, sku, result) == s

\* payload.model_dump(): a fresh dict of every field of the payload, sku included
ModelDump(payload) == payload

\* an upsert that keeps the old value of a field the payload leaves None
StoreAfterUpsert_Merged(s, payload) ==
    LET new == ModelDump(payload)
        old == DictGet(s, payload.sku, NoneDict)
    IN  DictPut(s, payload.sku,
                [f \in (DOMAIN old) \cup (DOMAIN new) |->
                    IF f \in DOMAIN new /\ (f \notin DOMAIN old \/ new[f] # None)
                    THEN new[f] ELSE old[f]])

\* an upsert that adds the payload's inventory to the stored one
StoreAfterUpsert_Accumulated(s, payload) ==
    LET new == ModelDump(payload)
        old == DictGet(s, payload.sku, NoneDict)
    IN  DictPut(s, payload.sku,
                [new EXCEPT !.inventory = @ + DictGet(old, "inventory", 0)])

\* SKU_BASELINES[payload.sku] = payload.model_dump()
StoreAfterUpsert(s, payload) == DictPut(s, payload.sku, ModelDump(payload))

GetPrice(sku, competitor_price) ==
    LET result == GetPriceResult(store, rules, sku, competitor_price)
    IN  /\ req' = [op |-> "get_price", sku |-> sku, competitor_price |-> competitor_price]
        /\ resp' = result
        /\ fed' = GetPriceFed(store, sku, competitor_price)
        /\ store' = StoreAfterPrice(store, sku, result)
        /\ dup' = FALSE
        /\ UNCHANGED <<rules, given>>
        /\ UNCHANGED ruleVars
        /\ UNCHANGED concVars

PostPrice(payload) ==
    LET result == PostPriceResult(store, rules, payload)
    IN  /\ req' = [op |-> "post_price", sku |-> payload.sku,
                   competitor_price |-> payload.competitor_price]
        /\ resp' = result
        /\ fed' = GetPriceFed(store, payload.sku, payload.competitor_price)
        /\ store' = StoreAfterPrice(store, payload.sku, result)
        /\ dup' = FALSE
        /\ UNCHANGED <<rules, given>>
        /\ UNCHANGED ruleVars
        /\ UNCHANGED concVars

UpsertBaselineCall(payload) ==
    /\ req' = [op |-> "upsert_baseline", sku |-> payload.sku, payload |-> payload]
    /\ resp' = UpsertOk(payload.sku)
    /\ fed' = None
    /\ store' = StoreAfterUpsert(store, payload)
    /\ given' = [x \in (DOMAIN given) \cup {payload.sku} |->
                    IF x = payload.sku THEN payload ELSE given[x]]
    /\ dup' = (req.op = "upsert_baseline" /\ req.payload = payload)
    /\ UNCHANGED rules
    /\ UNCHANGED ruleVars
    /\ UNCHANGED concVars

----------------------------------------------------------------------------
(* apply_rules called directly, on every input of the sets below *)

PredictedPrices == {0, 92, 920000, 1000000, 1050000}

RuleConfigs ==
    { DEFAULT_RULES,
      NoneDict,
      [min_margin_pct |-> 20, max_above_competitor_pct |-> 5,
       clearance_inventory |-> 0, clearance_discount_pct |-> 25],
      [min_margin_pct |-> 12, max_above_competitor_pct |-> 15,
       clearance_inventory |-> 1000, clearance_discount_pct |-> 10,
       max_price |-> 8000],
      [min_margin_pct |-> 12, max_above_competitor_pct |-> 15,
       clearance_inventory |-> 1000, clearance_discount_pct |-> 10,
       min_price |-> 12000] }

BaselineDicts == {SeedRecord} \cup UpsertBaseline

NoCall == [done |-> FALSE]

\* The arguments of a call that has not run yet
PendingCall(predicted_price, base, rls, competitor_price) ==
    [done |-> FALSE, predicted_price |-> predicted_price, base |-> base,
     rules |-> rls, competitor_price |-> competitor_price, result |-> None]

CallApplyRules ==
    /\ "result" \in DOMAIN call
    /\ ~call.done
    /\ call' = [call EXCEPT !.done = TRUE,
                            !.result = ApplyRules(call.predicted_price, call.base,
                                                  call.rules, call.competitor_price)]
    /\ UNCHANGED <<store, rules>>
    /\ UNCHANGED seqVars
    /\ UNCHANGED concVars

----------------------------------------------------------------------------
(* Claims about apply_rules (SpecRules) *)

CostFloor(base, rls) == base["cost"] * (Hundred + DictGet(rls, "min_margin_pct", 12))
CeilingOf(rls, competitor_price) ==
    competitor_price * (Hundred + DictGet(rls, "max_above_competitor_pct", 15))
ClearancePrice(base, rls) ==
    base["base_price"] * (Hundred - DictGet(rls, "clearance_discount_pct", 10))
InClearance(base, rls) ==
    DictGet(base, "inventory", 0) > DictGet(rls, "clearance_inventory", 1000)

\* The smallest of the margin floor and of the limits of the later steps that apply
LowestLimit(base, rls, competitor_price) ==
    LET a == CostFloor(base, rls)
        b == IF competitor_price # None THEN Min(a, CeilingOf(rls, competitor_price)) ELSE a
        c == IF InClearance(base, rls) THEN Min(b, ClearancePrice(base, rls)) ELSE b
    IN  IF "max_price" \in DOMAIN rls THEN Min(c, rls["max_price"] * Hundred) ELSE c

\* C1 as stated: the price apply_rules returns is never below cost * (1 + min_margin_pct).
C1_AsStated ==
    call.done => call.result * Hundred >= CostFloor(call.base, call.rules)

\* C1 as amended: the price apply_rules returns is never below round2 of the smallest of
\* cost * (1 + min_margin_pct), the competitor ceiling (when a competitor price is
\* observed), the clearance price (when inventory exceeds the threshold) and max_price
\* (when configured); so when none of the three later steps applies, it is never
\* below the margin floor rounded to 2 digits, whatever the predicted price.
C1_FloorUpToLaterSteps ==
    call.done =>
        /\ call.result >= Round2(LowestLimit(call.base, call.rules, call.competitor_price))
        /\ ( /\ call.competitor_price = None
             /\ ~InClearance(call.base, call.rules)
             /\ "max_price" \notin DOMAIN call.rules
             => call.result >= Round2(CostFloor(call.base, call.rules)) )

\* The floor raised a predicted price that was below it, and no later step lowered it.
C1_Witness ==
    /\ call.done
    /\ call.predicted_price < CostFloor(call.base, call.rules)
    /\ CostFloor(call.base, call.rules) > 0
    /\ call.result = Round2(CostFloor(call.base, call.rules))

\* The price before and after the clearance statement is the same
WithoutClearance(predicted_price, base, rls, competitor_price) ==
    Round2(HardCap(CompetitorCap(MarginFloor(predicted_price, base, rls),
                                 rls, competitor_price), rls))

\* C6 as stated: with inventory above the threshold the returned price is at most
\* base_price * (1 - clearance_discount_pct), and with inventory at or below the
\* threshold the clearance step changes nothing.
C6_AsStated ==
    call.done =>
        /\ InClearance(call.base, call.rules)
           => call.result * Hundred <= ClearancePrice(call.base, call.rules)
        /\ ~InClearance(call.base, call.rules)
           => call.result = WithoutClearance(call.predicted_price, call.base,
                                             call.rules, call.competitor_price)

\* C6 as amended: with inventory above the threshold the returned price is at most
\* base_price * (1 - clearance_discount_pct) rounded to 2 digits, a limit taken from
\* the record's base_price and in force also where it is below the margin floor; with
\* inventory at or below the threshold the clearance step changes nothing.
C6_ClearanceDominates ==
    call.done =>
        /\ InClearance(call.base, call.rules)
           => call.result <= Round2(ClearancePrice(call.base, call.rules))
        /\ ~InClearance(call.base, call.rules)
           => call.result = WithoutClearance(call.predicted_price, call.base,
                                             call.rules, call.competitor_price)

\* Clearance applied with a clearance price below the margin floor, and won.
C6_Witness ==
    /\ call.done
    /\ InClearance(call.base, call.rules)
    /\ ClearancePrice(call.base, call.rules) < CostFloor(call.base, call.rules)
    /\ call.result * Hundred = ClearancePrice(call.base, call.rules)
    /\ call.result * Hundred < CostFloor(call.base, call.rules)

----------------------------------------------------------------------------
(* Claims about the endpoints (Spec) *)

PriceOps == {"get_price", "post_price"}

\* The last request was a price request for a sku that has a baseline
PriceRequestServed == req.op \in PriceOps /\ req.sku \in DOMAIN store

\* What the predictor is to be fed: the observed price, else the record's
\* competitor price if it has one, else the record's base price
ExpectedFed(base, observed) ==
    IF observed # None THEN observed
    ELSE IF "competitor_price" \in DOMAIN base /\ base["competitor_price"] # None
         THEN base["competitor_price"]
         ELSE base["base_price"]

\* C2: for every record in the store, a price request feeds the predictor the observed
\* price, else the record's competitor price if present, else its base price; the value
\* fed is a number and the request yields a price.
C2_CompetitorResolution ==
    PriceRequestServed =>
        /\ fed = ExpectedFed(store[req.sku], req.competitor_price)
        /\ fed # None
        /\ resp.status = 200
        /\ "price" \in DOMAIN resp

\* C3: a price request fails with not-found, and carries no price, exactly when its
\* sku was never seeded and never upserted.
C3_NotFound ==
    req.op \in PriceOps =>
        /\ req.sku \notin DOMAIN given => resp.status = 404 /\ "price" \notin DOMAIN resp
        /\ req.sku \in DOMAIN given => resp.status # 404
        /\ DOMAIN given = DOMAIN store

\* Not-found for one sku after an upsert has replaced the seed record of the other.
C3_Witness ==
    /\ req.op \in PriceOps
    /\ req.sku = OtherSku
    /\ resp.status = 404
    /\ store[SeedSku] # SeedRecord

\* C4: the rule engine gets the caller's observed price, not the value resolved for
\* the predictor: with none observed the ceiling step is skipped, whatever the record
\* stores; with one observed the ceiling is observed * (1 + max_above_competitor_pct).
C4_CompetitorAsymmetry ==
    (PriceRequestServed /\ resp.status = 200) =>
        LET base == store[req.sku]
            predicted == PredictPrice(base["base_price"], fed, base["inventory"])
            floored == MarginFloor(predicted, base, rules)
            ceiling == req.competitor_price * (Hundred + rules["max_above_competitor_pct"])
            capped == IF req.competitor_price = None THEN floored
                      ELSE Min(floored, ceiling)
        IN  resp.price = Round2(HardCap(Clearance(capped, base, rules), rules))

\* No price observed, and the price decided is above what the ceiling of the stored
\* competitor price would have allowed.
C4_Witness ==
    /\ PriceRequestServed
    /\ resp.status = 200
    /\ req.competitor_price = None
    /\ store[req.sku]["competitor_price"] # None
    /\ resp.price * Hundred > store[req.sku]["competitor_price"] * (Hundred + 15)

\* The reference pipeline, written out: predict, then floor, ceiling, clearance, cap
ReferencePrice(base, rls, observed) ==
    LET comp == IF observed # None THEN observed ELSE base["competitor_price"]
        factor == Hundred + (IF comp > base["base_price"] THEN 5 ELSE 0 - 3)
                          + (IF base["inventory"] > 500 THEN 0 - 5 ELSE 0)
        p0 == base["base_price"] * factor
        floor == base["cost"] * (Hundred + rls["min_margin_pct"])
        p1 == IF p0 < floor THEN floor ELSE p0
        ceil == observed * (Hundred + rls["max_above_competitor_pct"])
        p2 == IF observed # None /\ ceil < p1 THEN ceil ELSE p1
        clear == base["base_price"] * (Hundred - rls["clearance_discount_pct"])
        p3 == IF base["inventory"] > rls["clearance_inventory"] /\ clear < p2
              THEN clear ELSE p2
        p4 == IF "max_price" \in DOMAIN rls /\ rls["max_price"] * Hundred < p3
              THEN rls["max_price"] * Hundred ELSE p3
    IN  Round2(p4)

\* C5: for a stored record with a competitor price, a price request returns round2 of
\* predict followed by margin floor, competitor ceiling, clearance and hard cap in
\* this order; the seed record yields 100.00 with no observed price, 92.00 with 90.
C5_ReferencePipeline ==
    (PriceRequestServed /\ store[req.sku]["competitor_price"] # None) =>
        /\ resp.status = 200
        /\ resp.price = ReferencePrice(store[req.sku], rules, req.competitor_price)
        /\ (store[req.sku] = SeedRecord /\ req.competitor_price = None)
           => resp.price = 10000
        /\ (store[req.sku] = SeedRecord /\ req.competitor_price = 9000)
           => resp.price = 9200

\* Clearance lowered a price that the margin floor had raised: the order shows.
C5_Witness ==
    /\ PriceRequestServed
    /\ resp.status = 200
    /\ store[req.sku]["competitor_price"] # None
    /\ store[req.sku]["inventory"] > 1000
    /\ resp.price * Hundred < store[req.sku]["cost"] * (Hundred + 12)
    /\ resp.price = 9000

\* C7: the store holds, for every sku, exactly the record of the most recent upsert for
\* it (or the seed), field by field, nothing kept from an earlier record; and an
\* upsert leaves the records of the other skus as they were.
C7_UpsertReplaces ==
    /\ [](/\ DOMAIN store = DOMAIN given
          /\ \A sku \in DOMAIN store :
                /\ DOMAIN store[sku] = DOMAIN given[sku]
                /\ \A f \in DOMAIN store[sku] : store[sku][f] = given[sku][f])
    /\ [][req'.op = "upsert_baseline" =>
            \A sku \in (DOMAIN store) \ {req'.sku} :
                sku \in DOMAIN store' /\ store'[sku] = store[sku]]_vars

\* The seed's competitor price is gone after a re-upsert that left it out.
C7_Witness ==
    /\ req.op = "upsert_baseline"
    /\ req.sku = SeedSku
    /\ req.payload.competitor_price = None
    /\ store[SeedSku]["competitor_price"] = None
    /\ OtherSku \in DOMAIN store

\* C8: an upsert equal to the one just before it leaves the store as it was, so every
\* later price request, for any sku and observed price, has the same outcome.
C8_UpsertIdempotent ==
    [][dup' =>
         /\ store' = store
         /\ \A sku \in Skus, observed \in ObservedPrices :
               /\ GetPriceResult(store', rules', sku, observed)
                    = GetPriceResult(store, rules, sku, observed)
               /\ PostPriceResult(store', rules', [sku |-> sku, competitor_price |-> observed])
                    = PostPriceResult(store, rules, [sku |-> sku, competitor_price |-> observed])
      ]_vars

\* The same upsert was made twice in a row for the seeded sku, whose record it is now.
C8_Witness ==
    /\ dup
    /\ req.op = "upsert_baseline"
    /\ req.sku = SeedSku
    /\ store[SeedSku] = ModelDump(req.payload)

\* C9: a price request, served or not found, leaves the store and the rule
\* configuration as they were; only an upsert changes the store, and no record is
\* ever removed.
C9_PriceRequestsReadOnly ==
    [][/\ req'.op \in PriceOps => (store' = store /\ rules' = rules)
       /\ store' # store => req'.op = "upsert_baseline"
       /\ rules' = rules
       /\ DOMAIN store \subseteq DOMAIN store']_vars

\* A price request was served for a record an upsert had created, and the record
\* holds nothing but what the upsert gave.
C9_Witness ==
    /\ req.op = "post_price"
    /\ resp.status = 200
    /\ req.sku = OtherSku
    /\ OtherSku \in DOMAIN store
    /\ store[OtherSku] = given[OtherSku]

----------------------------------------------------------------------------
(* get_price and upsert_baseline as threads of the server's pool, interleaved   *)
(* statement by statement.  One step is one statement that touches a global or  *)
(* a dict other threads can reach; dict.get and the item assignment are single  *)
(* interpreter operations.                                                      *)

\* The upserts the writer thread makes in one run.
MaxUpserts == 2

Readers == {"r1", "r2"}

ConcPayloads ==
    { [sku |-> SeedSku, base_price |-> 1, cost |-> 0, inventory |-> 0,
       competitor_price |-> None, seasonality |-> 100],
      [sku |-> SeedSku, base_price |-> 10000, cost |-> 9000, inventory |-> 1001,
       competitor_price |-> 5000, seasonality |-> 100] }

ConcObserved == {None, 9000}

IdleLoc == [sku |-> SeedSku, competitor_price |-> None]

\* a handler that goes back to SKU_BASELINES[sku] for every field it reads
BaseOf_Reread(t) == store[loc[t].sku]

\* The dict the local `base` of thread t refers to.  No statement of the program
\* assigns into a baseline dict once it is built, so the reference is its value.
BaseOf(t) == loc[t].base

\* base.get(f, default), recorded in the thread's reads
ReadGet(t, f, default) == DictGet(BaseOf(t), f, default)

StartRequest(t, competitor_price) ==
    /\ pc[t] = "idle"
    /\ pc' = [pc EXCEPT ![t] = "lookup"]
    /\ loc' = [loc EXCEPT ![t] = [sku |-> SeedSku, competitor_price |-> competitor_price,
                                  startAck |-> acked, reads |-> {}]]
    /\ UNCHANGED <<store, rules, wpc, wloc, hist, acked, nUpserts>>
    /\ UNCHANGED seqVars
    /\ UNCHANGED ruleVars

\* base = SKU_BASELINES.get(sku); if not base: raise HTTPException(404)
Lookup(t) ==
    /\ pc[t] = "lookup"
    /\ LET base == DictGet(store, loc[t].sku, NoneDict)
       IN  /\ loc' = [loc EXCEPT ![t] =
                         [x \in (DOMAIN @) \cup {"base", "baseVer", "status"} |->
                            IF x = "base" THEN base
                            ELSE IF x = "baseVer" THEN Len(hist)
                            ELSE IF x = "status" THEN (IF Falsy(base) THEN 404 ELSE 0)
                            ELSE @[x]]]
           /\ pc' = [pc EXCEPT ![t] = IF Falsy(base) THEN "done" ELSE "resolve"]
    /\ UNCHANGED <<store, rules, wpc, wloc, hist, acked, nUpserts>>
    /\ UNCHANGED seqVars
    /\ UNCHANGED ruleVars

\* comp = competitor_price if competitor_price is not None
\*        else base.get("competitor_price", base["base_price"])
Resolve(t) ==
    /\ pc[t] = "resolve"
    /\ LET observed == loc[t].competitor_price
           bp == ReadGet(t, "base_price", None)
           comp == IF observed # None THEN observed
                   ELSE ReadGet(t, "competitor_price", bp)
           rd == IF observed # None THEN {}
                 ELSE {<<"base_price", bp>>, <<"competitor_price", comp>>}
       IN  loc' = [loc EXCEPT ![t] =
                      [x \in (DOMAIN @) \cup {"comp"} |->
                         IF x = "comp" THEN comp
                         ELSE IF x = "reads" THEN @[x] \cup rd
                         ELSE @[x]]]
    /\ pc' = [pc EXCEPT ![t] = "predict"]
    /\ UNCHANGED <<store, rules, wpc, wloc, hist, acked, nUpserts>>
    /\ UNCHANGED seqVars
    /\ UNCHANGED ruleVars

\* predicted = MODEL.predict_price(base["base_price"], comp, base.get("inventory", 0))
Predict(t) ==
    /\ pc[t] = "predict"
    /\ LET bp == ReadGet(t, "base_price", None)
           inv == ReadGet(t, "inventory", 0)
           raises == PredictRaises(loc[t].comp)
       IN  /\ loc' = [loc EXCEPT ![t] =
                         [x \in (DOMAIN @) \cup {"predicted"} |->
                            IF x = "predicted"
                            THEN (IF raises THEN None ELSE PredictPrice(bp, loc[t].comp, inv))
                            ELSE IF x = "status" THEN (IF raises THEN 500 ELSE @[x])
                            ELSE IF x = "reads"
                                 THEN @[x] \cup {<<"base_price", bp>>, <<"inventory", inv>>}
                            ELSE @[x]]]
           /\ pc' = [pc EXCEPT ![t] = IF raises THEN "done" ELSE "rules"]
    /\ UNCHANGED <<store, rules, wpc, wloc, hist, acked, nUpserts>>
    /\ UNCHANGED seqVars
    /\ UNCHANGED ruleVars

\* price = apply_rules(predicted, base, DEFAULT_RULES, competitor_price); return
Rules(t) ==
    /\ pc[t] = "rules"
    /\ LET cost == ReadGet(t, "cost", None)
           inv == ReadGet(t, "inventory", 0)
           bp == ReadGet(t, "base_price", None)
           seen == [cost |-> cost, inventory |-> inv, base_price |-> bp]
           price == ApplyRules(loc[t].predicted, seen, rules, loc[t].competitor_price)
       IN  loc' = [loc EXCEPT ![t] =
                      [x \in (DOMAIN @) \cup {"price"} |->
                         IF x = "price" THEN price
                         ELSE IF x = "status" THEN 200
                         ELSE IF x = "reads"
                              THEN @[x] \cup {<<"cost", cost>>, <<"inventory", inv>>,
                                              <<"base_price", bp>>}
                         ELSE @[x]]]
    /\ pc' = [pc EXCEPT ![t] = "done"]
    /\ UNCHANGED <<store, rules, wpc, wloc, hist, acked, nUpserts>>
    /\ UNCHANGED seqVars
    /\ UNCHANGED ruleVars

\* The response is sent; the thread takes the next request
Finish(t) ==
    /\ pc[t] = "done"
    /\ pc' = [pc EXCEPT ![t] = "idle"]
    /\ loc' = [loc EXCEPT ![t] = IdleLoc]
    /\ UNCHANGED <<store, rules, wpc, wloc, hist, acked, nUpserts>>
    /\ UNCHANGED seqVars
    /\ UNCHANGED ruleVars

\* upsert_baseline is entered: payload.model_dump() builds the new dict
WriterDump(payload) ==
    /\ wpc = "idle"
    /\ nUpserts < MaxUpserts
    /\ nUpserts' = nUpserts + 1
    /\ wloc' = [payload |-> payload, dumped |-> ModelDump(payload)]
    /\ wpc' = "assign"
    /\ UNCHANGED <<store, rules, pc, loc, hist, acked>>
    /\ UNCHANGED seqVars
    /\ UNCHANGED ruleVars

\* SKU_BASELINES[payload.sku] = <the new dict>
WriterAssign ==
    /\ wpc = "assign"
    /\ store' = DictPut(store, wloc.payload.sku, wloc.dumped)
    /\ hist' = Append(hist, wloc.dumped)
    /\ wpc' = "return"
    /\ UNCHANGED <<rules, pc, loc, wloc, acked, nUpserts>>
    /\ UNCHANGED seqVars
    /\ UNCHANGED ruleVars

\* return {"status": "ok", ...}
WriterReturn ==
    /\ wpc = "return"
    /\ acked' = Len(hist)
    /\ wpc' = "idle"
    /\ wloc' = NoneDict
    /\ UNCHANGED <<store, rules, pc, loc, hist, nUpserts>>
    /\ UNCHANGED seqVars
    /\ UNCHANGED ruleVars

----------------------------------------------------------------------------
(* Claim about the interleavings (SpecConc) *)

\* What a request with this observed price returns when the store holds dict d
OutcomeOn(d, observed) == GetPriceResult([s \in {SeedSku} |-> d], rules, SeedSku, observed)

\* C10: every field a price request uses, from its lookup to its rule engine call,
\* comes from one complete record that was stored under the sku, never from a mixture
\* of two, and its answer is the one that record gives; the record is the one of the
\* last upsert that had returned when the request started, or one stored later.
C10_NoHalfAppliedWrite ==
    \A t \in Readers :
        pc[t] # "idle" =>
            \E v \in loc[t].startAck .. Len(hist) :
                /\ \A r \in loc[t].reads : hist[v][r[1]] = r[2]
                /\ pc[t] = "done" =>
                      /\ loc[t].status = OutcomeOn(hist[v], loc[t].competitor_price).status
                      /\ loc[t].status = 200 =>
                            loc[t].price
                              = OutcomeOn(hist[v], loc[t].competitor_price).price

\* A request that started after the first upsert had returned, and was overtaken by
\* the second one between its lookup and its answer: it answered from the first.
C10_Witness ==
    \E t \in Readers :
        /\ pc[t] = "done"
        /\ loc[t].status = 200
        /\ loc[t].startAck = 2
        /\ Len(hist) = 3
        /\ loc[t].base = hist[2]
        /\ hist[2] # hist[3]
        /\ store[SeedSku] = hist[3]

----------------------------------------------------------------------------
(* Specifications *)

InitSeq ==
    /\ store = SKU_BASELINES
    /\ rules = DEFAULT_RULES
    /\ req = [op |-> "none"]
    /\ resp = [status |-> 0]
    /\ fed = None
    /\ given = [s \in {SeedSku} |-> SeedRecord]
    /\ dup = FALSE

InitConcIdle ==
    /\ pc = <<>>
    /\ loc = <<>>
    /\ wpc = "idle"
    /\ wloc = NoneDict
    /\ hist = <<>>
    /\ acked = 0
    /\ nUpserts = 0

Init ==
    /\ InitSeq
    /\ call = NoCall
    /\ InitConcIdle

Next ==
    \/ \E sku \in Skus, competitor_price \in ObservedPrices : GetPrice(sku, competitor_price)
    \/ \E payload \in PriceQuery : PostPrice(payload)
    \/ \E payload \in UpsertBaseline : UpsertBaselineCall(payload)

Spec == Init /\ [][Next]_vars

InitRules ==
    /\ InitSeq
    /\ call \in { PendingCall(predicted_price, base, rls, competitor_price) :
                     predicted_price \in PredictedPrices, base \in BaselineDicts,
                     rls \in RuleConfigs, competitor_price \in ObservedPrices }
    /\ InitConcIdle

NextRules == CallApplyRules

SpecRules == InitRules /\ [][NextRules]_vars

InitConc ==
    /\ InitSeq
    /\ call = NoCall
    /\ pc = [t \in Readers |-> "idle"]
    /\ loc = [t \in Readers |-> IdleLoc]
    /\ wpc = "idle"
    /\ wloc = NoneDict
    /\ hist = <<SeedRecord>>
    /\ acked = 1
    /\ nUpserts = 0

NextConc ==
    \/ \E t \in Readers, competitor_price \in ConcObserved : StartRequest(t, competitor_price)
    \/ \E t \in Readers : Lookup(t)
    \/ \E t \in Readers : Resolve(t)
    \/ \E t \in Readers : Predict(t)
    \/ \E t \in Readers : Rules(t)
    \/ \E t \in Readers : Finish(t)
    \/ \E payload \in ConcPayloads : WriterDump(payload)
    \/ WriterAssign
    \/ WriterReturn

SpecConc == InitConc /\ [][NextConc]_vars

====
